---- MODULE Spec2Model ----
(***************************************************************************)
(* Book release tracker: one monitoring cycle (BookMonitor) over the       *)
(* persisted schedule store, with the scraper's candidate pipeline and the *)
(* notifier as the environment.                                            *)
(*                                                                         *)
(* Days are ordinals.  Day 0 is 2025-12-23, so day 8 is 2025-12-31 and day *)
(* 9 is 2026-01-01.  A timestamp (datetime.now().isoformat()) is modelled  *)
(* by the day it is taken on.  The day advances between cycles only.       *)
(*                                                                         *)
(* A title or an author name is the sequence of its whitespace-separated   *)
(* words; a generated id is the sequence of the tokens its "_"-joined      *)
(* string is made of.  A text given to parse_release_date is the sequence  *)
(* of its characters; the parser has a specification of its own.           *)
(***************************************************************************)
EXTENDS Integers, Sequences, FiniteSets, TLC

VARIABLES
    today,                  \* date.today()
    disk,                   \* release_schedules.json
    pc,                     \* position of run_monitoring_cycle
    author_idx,             \* loop index over authors (line 48)
    existing_schedules,     \* local of run_monitoring_cycle
    all_discovered_books,   \* local of run_monitoring_cycle
    new_discoveries,        \* local of run_monitoring_cycle
    date_changes,           \* local of run_monitoring_cycle
    updated_schedules,      \* local of run_monitoring_cycle
    outbox,                 \* the notifier's calls of the cycle's dispatch
    undelivered,            \* observer: the batches of the latest dispatch whose send failed
    result,                 \* what the latest cycle returned
    save_ok,                \* what save_release_schedules returned to the latest cycle
    failure_alerts,         \* the outcomes of the latest cycle's failure alert sends
    cycles,                 \* the number of runs of the job so far
    final_book_objects,     \* which object each book of updated_schedules is
    last_scrape,            \* observer: the latest call of scrape_author_releases, its locals
    date_text,               \* the argument of a call of parse_release_date
    parsed                  \* what the call returned, once it has

vars == <<today, disk, pc, author_idx, existing_schedules, all_discovered_books,
          new_discoveries, date_changes, updated_schedules, outbox, undelivered,
          result, save_ok, failure_alerts, cycles, final_book_objects,
          last_scrape, date_text, parsed>>

----------------------------------------------------------------------------
(* Bounds of the model *)

MaxBooks == 2

MaxEvents == 2

MaxCycles == 2

(* Program constants *)

ReminderDays == 7

RetentionDays == 180

TitleWords == 3

AuthorWords == 2

----------------------------------------------------------------------------
(* Values *)

None == [k |-> "none", d |-> 0]

DateObj(n) == [k |-> "date", d |-> n]

IsoStr(n) == [k |-> "str", d |-> n]

EmptyStr == [k |-> "empty", d |-> 0]

NoneStr == [k |-> "Nonestr", d |-> 0]

\* Python's truthiness of a release_date value
Truthy(v) == v.k \in {"date", "str"}

\* str(v)
Str(v) == IF v.k = "date" THEN IsoStr(v.d)
          ELSE IF v.k = "none" THEN NoneStr
          ELSE v

\* dict.get(key, default): the default is used only when the key is absent
Get(dict, key, default) == IF key \in DOMAIN dict THEN dict[key] ELSE default

\* {**a, **b}
MergeDicts(a, b) ==
    [key \in (DOMAIN a) \cup (DOMAIN b) |->
        IF key \in DOMAIN b THEN b[key] ELSE a[key]]

Min(S) == CHOOSE x \in S : \A y \in S : x <= y

Max(S) == CHOOSE x \in S : \A y \in S : x >= y

\* the year of a day, as the four digits of its ISO string
YearOf(n) == IF n < 9 THEN "2025" ELSE "2026"

LowerWord(w) ==
    CASE w = "Way" -> "way"
      [] w = "WAY" -> "way"
      [] w = "Of" -> "of"
      [] w = "OF" -> "of"
      [] w = "Kings" -> "kings"
      [] w = "KINGS" -> "kings"
      [] w = "Kings!" -> "kings!"
      [] w = "Prime" -> "prime"
      [] w = "Brandon" -> "brandon"
      [] w = "Sanderson" -> "sanderson"
      [] w = "Frank" -> "frank"
      [] w = "Herbert" -> "herbert"
      [] w = "Dune" -> "dune"
      [] w = "Andy" -> "andy"
      [] w = "Weir" -> "weir"
      [] OTHER -> w

\* str.lower() of a title or an author name
Lower(s) == [i \in 1..Len(s) |-> LowerWord(s[i])]

\* re.sub(r'[^a-zA-Z0-9\s]', '', word)
StripPunct(w) ==
    CASE w = "kings!" -> "kings"
      [] w = "-" -> ""
      [] OTHER -> w

NonEmptyWord(w) == w # ""

Take(s, n) == IF Len(s) <= n THEN s ELSE SubSeq(s, 1, n)

\* re.sub(...).split(): the words left after stripping the punctuation
CleanWords(s) == SelectSeq([i \in 1..Len(s) |-> StripPunct(LowerWord(s[i]))], NonEmptyWord)

generate_book_id(title, author, release_date_text) ==
    Take(CleanWords(author), AuthorWords) \o Take(CleanWords(title), TitleWords)
        \o (IF release_date_text.k = "str" THEN <<YearOf(release_date_text.d)>> ELSE <<>>)

normalize_book_data(raw_data, now) ==
    LET title == Get(raw_data, "title", <<>>)
        author == Get(raw_data, "author", <<>>)
        release_date == Get(raw_data, "release_date", None)
        id == Get(raw_data, "id", <<>>)
    IN  [id |-> IF id # <<>> THEN id
                ELSE generate_book_id(title, author,
                        IF Truthy(release_date) THEN Str(release_date) ELSE EmptyStr),
         title |-> title,
         author |-> author,
         release_date |-> release_date,
         status |-> Get(raw_data, "status", "upcoming"),
         source_url |-> Get(raw_data, "source_url", ""),
         discovery_date |-> now,
         last_checked |-> now,
         notifications_sent |-> <<>>,
         metadata |-> Get(raw_data, "metadata", <<>>)]

----------------------------------------------------------------------------
(* The scraper: what one author page yields *)

T1 == <<"Way", "Of", "Kings">>

T2 == <<"WAY", "OF", "KINGS">>

T3 == <<"Way", "Of", "Kings!", "Prime">>

Authors ==
    << [name |-> <<"Brandon", "Sanderson">>, status |-> "active",
        book_notification_id |-> "brandon-sanderson"],
       [name |-> <<"Frank", "Herbert">>, status |-> "paused",
        book_notification_id |-> "frank-herbert"],
       [name |-> <<"Andy", "Weir">>, status |-> "active",
        book_notification_id |-> "andy-weir"] >>

AuthorUrl(author_config) == "authors/" \o author_config.book_notification_id

Find(title, release_date, url) == [title |-> title, release_date |-> release_date, url |-> url]

\* what the pattern-text (FAQ) strategy can find on a page: dated drafts only
FaqFinds ==
    {<<>>, <<Find(T3, DateObj(7), "")>>, <<Find(T1, DateObj(8), "")>>,
     <<Find(T1, DateObj(9), "")>>}

\* what the structured-data (JSON-LD) strategy can find on a page
JsonLdFinds ==
    {<<>>, <<Find(T2, None, "")>>, <<Find(T1, DateObj(7), "books/way-of-kings")>>}

\* what the HTML strategy can find on a page
HtmlFinds ==
    {<<>>, <<Find(T3, DateObj(8), "")>>}

\* scrape_page returned None (base_book_scraper.py, lines 179-190)
FetchFailed == [soup |-> FALSE, raises |-> FALSE, faq |-> <<>>, json_ld |-> <<>>, html |-> <<>>]

\* a page whose processing raises outside the strategies' own handlers
ExtractionFailed == [soup |-> TRUE, raises |-> TRUE, faq |-> <<>>, json_ld |-> <<>>, html |-> <<>>]

Pages ==
    {FetchFailed, ExtractionFailed}
    \cup [soup : {TRUE}, raises : {FALSE}, faq : FaqFinds, json_ld : JsonLdFinds,
          html : HtmlFinds]

\* a page that lists no book
NoReleases == [soup |-> TRUE, raises |-> FALSE, faq |-> <<>>, json_ld |-> <<>>, html |-> <<>>]

\* the pages the site can serve for an author: the second active author has no
\* release announced
AuthorPages(author_config) ==
    IF author_config.book_notification_id = "andy-weir"
    THEN {FetchFailed, NoReleases}
    ELSE Pages

_extract_books_from_faq(page, author_name, source_url, now) ==
    [i \in 1..Len(page.faq) |->
        normalize_book_data(
            [title |-> page.faq[i].title, author |-> author_name,
             release_date |-> page.faq[i].release_date, source_url |-> source_url,
             metadata |-> [source |-> "faq", confidence |-> "high"]], now)]

_extract_books_from_json_ld(page, author_name, now) ==
    [i \in 1..Len(page.json_ld) |->
        normalize_book_data(
            [title |-> page.json_ld[i].title, author |-> author_name,
             release_date |-> page.json_ld[i].release_date,
             source_url |-> page.json_ld[i].url,
             metadata |-> [isbn |-> "", publisher |-> "", series |-> "",
                           description |-> "", url |-> page.json_ld[i].url]], now)]

_extract_books_from_html(page, author_name, source_url, now) ==
    [i \in 1..Len(page.html) |->
        normalize_book_data(
            [title |-> page.html[i].title, author |-> author_name,
             release_date |-> page.html[i].release_date, source_url |-> source_url,
             metadata |-> [series |-> "", html_source |-> "True"]], now)]

TitleAuthorKey(book) == <<Lower(book.title), Lower(book.author)>>

RECURSIVE DedupFrom(_, _)
DedupFrom(books, seen) ==
    IF books = <<>> THEN <<>>
    ELSE LET key == TitleAuthorKey(Head(books))
         IN  IF key \in seen THEN DedupFrom(Tail(books), seen)
             ELSE <<Head(books)>> \o DedupFrom(Tail(books), seen \cup {key})

Reverse(seq) == [i \in 1..Len(seq) |-> seq[Len(seq) + 1 - i]]

\* a deduplication that keeps the last draft of each pair
_deduplicate_books_keep_last(books) == Reverse(DedupFrom(Reverse(books), {}))

_deduplicate_books(books) == DedupFrom(books, {})

\* a filter that lets every draft through
_is_upcoming_release_any(book, day) == TRUE

\* a candidate's date is a date object or None; an ISO string parses to its day
_is_upcoming_release(book, day) ==
    LET release_date == Get(book, "release_date", None)
    IN  IF ~Truthy(release_date) THEN TRUE ELSE release_date.d >= day

\* a call that ended in one of the two early returns or in the handler of
\* lines 72-74: nothing was extracted and [] is returned
FailedScrape(author_config, why) ==
    [author |-> author_config.name, failed |-> why, faq_books |-> <<>>,
     json_ld_books |-> <<>>, html_books |-> <<>>, books |-> <<>>,
     unique_books |-> <<>>, returned |-> <<>>]

\* lines 42-70: the locals of one call of scrape_author_releases and what it returns
ScrapeLocals(author_config, page, now, day) ==
    LET author_name == author_config.name
        author_url == AuthorUrl(author_config)
        faq_books == _extract_books_from_faq(page, author_name, author_url, now)
        json_ld_books == _extract_books_from_json_ld(page, author_name, now)
        html_books == IF faq_books = <<>>
                      THEN _extract_books_from_html(page, author_name, author_url, now)
                      ELSE <<>>
        books == faq_books \o json_ld_books \o html_books
        unique_books == _deduplicate_books(books)
        Upcoming(book) == _is_upcoming_release(book, day)
    IN  [author |-> author_name, failed |-> "no", faq_books |-> faq_books,
         json_ld_books |-> json_ld_books, html_books |-> html_books, books |-> books,
         unique_books |-> unique_books, returned |-> SelectSeq(unique_books, Upcoming)]

\* no call is being looked at
NoScrape ==
    [author |-> <<>>, failed |-> "none", faq_books |-> <<>>, json_ld_books |-> <<>>,
     html_books |-> <<>>, books |-> <<>>, unique_books |-> <<>>, returned |-> <<>>]

ScrapeRun(author_config, page, now, day) ==
    IF Get(author_config, "book_notification_id", "") = ""
    THEN FailedScrape(author_config, "config")
    ELSE IF ~page.soup THEN FailedScrape(author_config, "fetch")
    ELSE IF page.raises THEN FailedScrape(author_config, "extract")
    ELSE ScrapeLocals(author_config, page, now, day)

scrape_author_releases(author_config, page, now, day) ==
    ScrapeRun(author_config, page, now, day).returned

----------------------------------------------------------------------------
(* parse_release_date: a text is the sequence of its characters *)

Digits == {"0", "1", "2", "3", "4", "5", "6", "7", "8", "9"}

LowerLetters ==
    {"a", "b", "c", "d", "e", "f", "g", "h", "i", "j", "k", "l", "m",
     "n", "o", "p", "q", "r", "s", "t", "u", "v", "w", "x", "y", "z"}

UpperLetters ==
    {"A", "B", "C", "D", "E", "F", "G", "H", "I", "J", "K", "L", "M",
     "N", "O", "P", "Q", "R", "S", "T", "U", "V", "W", "X", "Y", "Z"}

\* int() of one digit
DigitValue(c) ==
    CASE c = "0" -> 0
      [] c = "1" -> 1
      [] c = "2" -> 2
      [] c = "3" -> 3
      [] c = "4" -> 4
      [] c = "5" -> 5
      [] c = "6" -> 6
      [] c = "7" -> 7
      [] c = "8" -> 8
      [] c = "9" -> 9

\* str.lower() of one character
LowerChar(c) ==
    CASE c = "A" -> "a"
      [] c = "B" -> "b"
      [] c = "C" -> "c"
      [] c = "D" -> "d"
      [] c = "E" -> "e"
      [] c = "F" -> "f"
      [] c = "G" -> "g"
      [] c = "H" -> "h"
      [] c = "I" -> "i"
      [] c = "J" -> "j"
      [] c = "K" -> "k"
      [] c = "L" -> "l"
      [] c = "M" -> "m"
      [] c = "N" -> "n"
      [] c = "O" -> "o"
      [] c = "P" -> "p"
      [] c = "Q" -> "q"
      [] c = "R" -> "r"
      [] c = "S" -> "s"
      [] c = "T" -> "t"
      [] c = "U" -> "u"
      [] c = "V" -> "v"
      [] c = "W" -> "w"
      [] c = "X" -> "x"
      [] c = "Y" -> "y"
      [] c = "Z" -> "z"
      [] OTHER -> c

\* the months dict of _parse_month_name
months ==
    {<<<<"j", "a", "n", "u", "a", "r", "y">>, 1>>,
     <<<<"j", "a", "n">>, 1>>,
     <<<<"f", "e", "b", "r", "u", "a", "r", "y">>, 2>>,
     <<<<"f", "e", "b">>, 2>>,
     <<<<"m", "a", "r", "c", "h">>, 3>>,
     <<<<"m", "a", "r">>, 3>>,
     <<<<"a", "p", "r", "i", "l">>, 4>>,
     <<<<"a", "p", "r">>, 4>>,
     <<<<"m", "a", "y">>, 5>>,
     <<<<"j", "u", "n", "e">>, 6>>,
     <<<<"j", "u", "n">>, 6>>,
     <<<<"j", "u", "l", "y">>, 7>>,
     <<<<"j", "u", "l">>, 7>>,
     <<<<"a", "u", "g", "u", "s", "t">>, 8>>,
     <<<<"a", "u", "g">>, 8>>,
     <<<<"s", "e", "p", "t", "e", "m", "b", "e", "r">>, 9>>,
     <<<<"s", "e", "p">>, 9>>,
     <<<<"s", "e", "p", "t">>, 9>>,
     <<<<"o", "c", "t", "o", "b", "e", "r">>, 10>>,
     <<<<"o", "c", "t">>, 10>>,
     <<<<"n", "o", "v", "e", "m", "b", "e", "r">>, 11>>,
     <<<<"n", "o", "v">>, 11>>,
     <<<<"d", "e", "c", "e", "m", "b", "e", "r">>, 12>>,
     <<<<"d", "e", "c">>, 12>>}

\* base_book_scraper.py, lines 192-201: ' '.join(text.split()), then strip
clean_text(text) ==
    LET Kept(i) ==
            \/ text[i] # " "
            \/ /\ i > 1
               /\ text[i - 1] # " "
               /\ \E j \in (i + 1)..Len(text) : text[j] # " "
        kept == SelectSeq([i \in 1..Len(text) |-> i], Kept)
    IN  [i \in 1..Len(kept) |-> text[kept[i]]]

\* one element of a pattern: a character class or a literal character, how many
\* times it may repeat, and whether it is a group
Elem(cls, min, max, grp) ==
    [cls |-> cls, min |-> min, max |-> max, plus |-> FALSE, grp |-> grp]

\* an element with the quantifier +
OneOrMore(cls) == [cls |-> cls, min |-> 1, max |-> 1, plus |-> TRUE, grp |-> FALSE]

\* lines 447-455
patterns ==
    << <<Elem("d", 4, 4, TRUE), Elem("-", 1, 1, FALSE), Elem("d", 1, 2, TRUE),
         Elem("-", 1, 1, FALSE), Elem("d", 1, 2, TRUE)>>,
       <<Elem("d", 1, 2, TRUE), Elem("/", 1, 1, FALSE), Elem("d", 1, 2, TRUE),
         Elem("/", 1, 1, FALSE), Elem("d", 4, 4, TRUE)>>,
       <<Elem("d", 1, 2, TRUE), Elem("-", 1, 1, FALSE), Elem("d", 1, 2, TRUE),
         Elem("-", 1, 1, FALSE), Elem("d", 4, 4, TRUE)>>,
       <<Elem("w", 3, 9, TRUE), OneOrMore("s"), Elem("d", 1, 2, TRUE),
         Elem(",", 0, 1, FALSE), OneOrMore("s"), Elem("d", 4, 4, TRUE)>>,
       <<Elem("d", 1, 2, TRUE), OneOrMore("s"), Elem("w", 3, 9, TRUE),
         OneOrMore("s"), Elem("d", 4, 4, TRUE)>>,
       <<Elem("w", 3, 9, TRUE), OneOrMore("s"), Elem("d", 4, 4, TRUE)>>,
       <<Elem("d", 4, 4, TRUE)>> >>

\* \d, \w, \s, or the character itself
InClass(c, cls) ==
    CASE cls = "d" -> c \in Digits
      [] cls = "w" -> c \in Digits \cup LowerLetters \cup UpperLetters \cup {"_"}
      [] cls = "s" -> c = " "
      [] OTHER -> c = cls

Fail == <<-1>>

\* the match of the elements k.. of a pattern at position i of a text, as the
\* number of characters each element takes, or Fail: every quantifier is greedy
\* and gives characters back only when the rest of the pattern needs them
RECURSIVE MatchFrom(_, _, _, _)
MatchFrom(text, i, pattern, k) ==
    IF k > Len(pattern) THEN <<>>
    ELSE LET e == pattern[k]
             left == Len(text) - i + 1
             Fits(n) ==
                 /\ n <= left
                 /\ \A j \in i..(i + n - 1) : InClass(text[j], e.cls)
                 /\ MatchFrom(text, i + n, pattern, k + 1) # Fail
             ok == {n \in e.min..(IF e.plus THEN left ELSE e.max) : Fits(n)}
         IN  IF ok = {} THEN Fail
             ELSE <<Max(ok)>> \o MatchFrom(text, i + Max(ok), pattern, k + 1)

RECURSIVE Sum(_)
Sum(lens) == IF lens = <<>> THEN 0 ELSE Head(lens) + Sum(Tail(lens))

\* the characters each group of a match took
Groups(text, pattern, start, lens) ==
    LET IsGroup(k) == pattern[k].grp
        grouped == SelectSeq([k \in 1..Len(pattern) |-> k], IsGroup)
        From(k) == start + Sum(SubSeq(lens, 1, k - 1))
    IN  [g \in 1..Len(grouped) |->
            SubSeq(text, From(grouped[g]), From(grouped[g]) + lens[grouped[g]] - 1)]

\* re.search returned None: a match has at least one group
NoMatch == <<>>

\* re.search: match.groups() of the leftmost match, or NoMatch
Search(pattern, text) ==
    LET starts == {i \in 1..(Len(text) + 1) : MatchFrom(text, i, pattern, 1) # Fail}
    IN  IF starts = {} THEN NoMatch
        ELSE Groups(text, pattern, Min(starts), MatchFrom(text, Min(starts), pattern, 1))

\* int() of a run of digits
RECURSIVE int(_)
int(digits) ==
    IF digits = <<>> THEN 0
    ELSE 10 * int(SubSeq(digits, 1, Len(digits) - 1)) + DigitValue(digits[Len(digits)])

IsLeap(year) == (year % 4 = 0 /\ year % 100 # 0) \/ year % 400 = 0

DaysInMonth(year, month) ==
    IF month = 2 THEN (IF IsLeap(year) THEN 29 ELSE 28)
    ELSE IF month \in {4, 6, 9, 11} THEN 30 ELSE 31

\* the outcome of a pattern that gave no date: no match, a ValueError, or a month
\* name that is none
NoDate == <<>>

\* datetime.date(year, month, day): the date, or NoDate for the ValueError
Date(year, month, day) ==
    IF /\ year \in 1..9999
       /\ month \in 1..12
       /\ day \in 1..DaysInMonth(year, month)
    THEN <<year, month, day>>
    ELSE NoDate

\* the number of the month, 0 for None
_parse_month_name(month_name) ==
    LET lower == [i \in 1..Len(month_name) |-> LowerChar(month_name[i])]
        hits == {entry \in months : entry[1] = lower}
    IN  IF hits = {} THEN 0 ELSE (CHOOSE entry \in hits : TRUE)[2]

\* lines 460-487: what the k-th pattern gives for the groups of its match
FromGroups(k, groups) ==
    CASE k = 1 -> Date(int(groups[1]), int(groups[2]), int(groups[3]))
      [] k \in {2, 3} -> Date(int(groups[3]), int(groups[1]), int(groups[2]))
      [] k = 4 ->
            IF _parse_month_name(groups[1]) # 0
            THEN Date(int(groups[3]), _parse_month_name(groups[1]), int(groups[2]))
            ELSE NoDate
      [] k = 5 ->
            IF _parse_month_name(groups[2]) # 0
            THEN Date(int(groups[3]), _parse_month_name(groups[2]), int(groups[1]))
            ELSE NoDate
      [] k = 6 ->
            IF _parse_month_name(groups[1]) # 0
            THEN Date(int(groups[2]), _parse_month_name(groups[1]), 1)
            ELSE NoDate
      [] k = 7 -> Date(int(groups[1]), 1, 1)

\* lines 457-489: one turn of the loop over the patterns
PatternDate(k, text) ==
    IF Search(patterns[k], text) = NoMatch THEN NoDate
    ELSE FromGroups(k, Search(patterns[k], text))

\* a loop that ends with the first pattern that matches, in range or not
RECURSIVE FirstMatchFrom(_, _)
FirstMatchFrom(k, text) ==
    IF k > Len(patterns) THEN NoDate
    ELSE IF Search(patterns[k], text) # NoMatch THEN PatternDate(k, text)
    ELSE FirstMatchFrom(k + 1, text)

\* lines 457-491: the patterns from the k-th on, in order
RECURSIVE TryPatternsFrom(_, _)
TryPatternsFrom(k, text) ==
    IF k > Len(patterns) THEN NoDate
    ELSE IF PatternDate(k, text) # NoDate THEN PatternDate(k, text)
    ELSE TryPatternsFrom(k + 1, text)

\* a parser that gives up at the first match whose fields are out of range
parse_release_date_first_match(date_str) ==
    IF date_str = <<>> THEN NoDate ELSE FirstMatchFrom(1, clean_text(date_str))

\* the date as <<year, month, day>>, NoDate for None
parse_release_date(date_str) ==
    IF date_str = <<>> THEN NoDate ELSE TryPatternsFrom(1, clean_text(date_str))

\* the texts the parser is given: every layout of the seven patterns, with fields
\* in and out of range, month names the dict has and has not, and texts without
\* a date
Years == {<<"2", "0", "2", "5">>, <<"2", "0", "2", "4">>, <<"0", "0", "0", "0">>}

MonthNumbers == {<<"1", "2">>, <<"1", "3">>, <<"0", "2">>}

DayNumbers == {<<"0", "9">>, <<"9">>, <<"2", "9">>, <<"3", "0">>}

MonthNames ==
    {<<"D", "e", "c", "e", "m", "b", "e", "r">>,
     <<"D", "E", "C">>,
     <<"S", "e", "p", "t">>,
     <<"F", "e", "b", "r", "u", "a", "r", "y">>,
     <<"F", "o", "o">>}

IsoTexts == {y \o <<"-">> \o m \o <<"-">> \o d : y \in Years, m \in MonthNumbers, d \in DayNumbers}

SlashTexts == {m \o <<"/">> \o d \o <<"/">> \o y : y \in Years, m \in MonthNumbers, d \in DayNumbers}

DashTexts == {m \o <<"-">> \o d \o <<"-">> \o y : y \in Years, m \in MonthNumbers, d \in DayNumbers}

MonthDayYearTexts ==
    {name \o <<" ">> \o d \o comma \o <<" ">> \o y :
        name \in MonthNames, d \in DayNumbers, comma \in {<<>>, <<",">>}, y \in Years}

DayMonthYearTexts ==
    {d \o <<" ">> \o name \o <<" ">> \o y : d \in DayNumbers, name \in MonthNames, y \in Years}

MonthYearTexts == {name \o <<" ">> \o y : name \in MonthNames, y \in Years}

NotADate == <<"n", "o", "t", " ", "a", " ", "d", "a", "t", "e">>

OtherTexts ==
    {<<>>, NotADate,
     <<" ", " ", "2", "0", "2", "5", "-", "1", "2", "-", "0", "9", " ", " ">>,
     <<"T", "u", "e", "s", "d", "a", "y", " ", " ", "D", "e", "c", "e", "m", "b", "e", "r", " ", "9", ",", " ", "2", "0", "2", "5">>,
     <<"o", "u", "t", " ", "1", "2", " ", "2", "0", "2", "5">>}

DateTexts ==
    IsoTexts \cup SlashTexts \cup DashTexts \cup MonthDayYearTexts \cup DayMonthYearTexts
        \cup MonthYearTexts \cup Years \cup OtherTexts

----------------------------------------------------------------------------
(* BookMonitor: the store and its helpers *)

NoFile == [exists |-> FALSE]

EmptyStore(now) == [books |-> <<>>, last_updated |-> now]

\* json.dump(..., default=str) then json.load: a date object comes back as its
\* ISO string, None as null, a string as itself
JsonValue(v) == IF v.k = "date" THEN IsoStr(v.d) ELSE v

JsonBook(book) == [book EXCEPT !.release_date = JsonValue(book.release_date)]

JsonStore(schedules) ==
    [schedules EXCEPT !.books = [i \in 1..Len(schedules.books) |-> JsonBook(schedules.books[i])]]

load_release_schedules(file, now) ==
    IF ~file.exists THEN EmptyStore(now)
    ELSE IF ~file.valid THEN EmptyStore(now)
    ELSE file.content

Indices(books, Test(_)) == {i \in 1..Len(books) : Test(books[i])}

\* a lookup that knows only the id
find_existing_book_by_id_only(book, existing_schedules_) ==
    LET existing_books == existing_schedules_.books
        book_id == Get(book, "id", <<>>)
        SameId(existing) == existing.id = book_id
        by_id == Indices(existing_books, SameId)
    IN  IF book_id # <<>> /\ by_id # {} THEN Min(by_id) ELSE 0

\* the index of the record find_existing_book returns, 0 for None
find_existing_book(book, existing_schedules_) ==
    LET existing_books == existing_schedules_.books
        book_id == Get(book, "id", <<>>)
        SameId(existing) == existing.id = book_id
        SamePair(existing) == TitleAuthorKey(existing) = TitleAuthorKey(book)
        by_id == Indices(existing_books, SameId)
        by_pair == Indices(existing_books, SamePair)
    IN  IF book_id # <<>> /\ by_id # {} THEN Min(by_id)
        ELSE IF by_pair # {} THEN Min(by_pair)
        ELSE 0

\* the index of the record _find_book_by_id returns, 0 for None
_find_book_by_id(books, book_id) ==
    LET SameId(book) == book.id = book_id
        hits == Indices(books, SameId)
    IN  IF hits # {} THEN Min(hits) ELSE 0

\* a comparison of the two values as they are, a date object against a string
has_date_changed_raw(new_book, existing_book) ==
    Get(new_book, "release_date", None) # Get(existing_book, "release_date", None)

has_date_changed(new_book, existing_book) ==
    LET new_date == Get(new_book, "release_date", None)
        existing_date == Get(existing_book, "release_date", None)
        new_date_text == IF Truthy(new_date) THEN Str(new_date) ELSE EmptyStr
        existing_date_text == IF Truthy(existing_date) THEN Str(existing_date) ELSE EmptyStr
    IN  new_date_text # existing_date_text

\* None, or the date object of a string (datetime.fromisoformat) or of a date
_parse_date_field(date_value) ==
    IF ~Truthy(date_value) THEN None ELSE DateObj(date_value.d)

_update_book_status(book, day) ==
    LET release_date_obj == _parse_date_field(Get(book, "release_date", None))
    IN  IF Truthy(release_date_obj) /\ release_date_obj.d <= day
        THEN [book EXCEPT !.status = "released"]
        ELSE book

\* the dict index by id: a later record overwrites an earlier one's entry
existing_by_id(existing_books, book_id) ==
    LET SameId(existing) == existing.id # <<>> /\ existing.id = book_id
        hits == Indices(existing_books, SameId)
    IN  IF hits = {} THEN 0 ELSE Max(hits)

\* the dict index by lower-cased (title, author), of the records having both
existing_by_title_author(existing_books, key) ==
    LET SamePair(existing) ==
            /\ Lower(existing.title) # <<>>
            /\ Lower(existing.author) # <<>>
            /\ TitleAuthorKey(existing) = key
        hits == Indices(existing_books, SamePair)
    IN  IF hits = {} THEN 0 ELSE Max(hits)

\* a match that tries the title and author pair before the id
MatchExistingTitleFirst(existing_books, new_book) ==
    LET new_id == Get(new_book, "id", <<>>)
    IN  IF existing_by_title_author(existing_books, TitleAuthorKey(new_book)) # 0
        THEN existing_by_title_author(existing_books, TitleAuthorKey(new_book))
        ELSE IF new_id # <<>> THEN existing_by_id(existing_books, new_id)
        ELSE 0

\* lines 269-278: the index of the existing record a candidate matches, 0 for none
MatchExisting(existing_books, new_book) ==
    LET new_id == Get(new_book, "id", <<>>)
    IN  IF new_id # <<>> /\ existing_by_id(existing_books, new_id) # 0
        THEN existing_by_id(existing_books, new_id)
        ELSE existing_by_title_author(existing_books, TitleAuthorKey(new_book))

\* an update that also takes the candidate's id
UpdatedBookWithCandidateId(existing, new_book, now) ==
    [existing EXCEPT
        !.id = Get(new_book, "id", existing.id),
        !.title = Get(new_book, "title", existing.title),
        !.release_date = Get(new_book, "release_date", existing.release_date),
        !.source_url = Get(new_book, "source_url", existing.source_url),
        !.last_checked = now,
        !.metadata = MergeDicts(existing.metadata, Get(new_book, "metadata", <<>>))]

\* lines 282-289: the deep copy of the existing record, updated from the candidate
UpdatedBook(existing, new_book, now) ==
    [existing EXCEPT
        !.title = Get(new_book, "title", existing.title),
        !.release_date = Get(new_book, "release_date", existing.release_date),
        !.source_url = Get(new_book, "source_url", existing.source_url),
        !.last_checked = now,
        !.metadata = MergeDicts(existing.metadata, Get(new_book, "metadata", <<>>))]

\* the dict objects a list of the cycle can hold: a record of the input store, a
\* candidate of the scrape, or an object nothing else refers to
ExistingObject(idx) == [obj |-> "existing", idx |-> idx]

CandidateObject(idx) == [obj |-> "candidate", idx |-> idx]

FreshObject == [obj |-> "fresh", idx |-> 0]

\* a store that takes the object it is given into its list
shared(object) == object

\* copy.deepcopy: a new object, sharing nothing with its argument
deepcopy(object) == FreshObject

\* lines 266-303: for each book of final_books, the object it is: a deep copy for
\* a matched and for a retained record, the candidate itself for a new book
final_books_objects(existing_schedules_, new_books) ==
    LET existing_books == existing_schedules_.books
        Match(new_book) == MatchExisting(existing_books, new_book)
        merged == [i \in 1..Len(new_books) |->
                      IF Match(new_books[i]) # 0
                      THEN deepcopy(ExistingObject(Match(new_books[i])))
                      ELSE CandidateObject(i)]
        updated_book_ids == {existing_books[Match(new_books[i])].id :
                                i \in {j \in 1..Len(new_books) : Match(new_books[j]) # 0}}
        Unmatched(i) == existing_books[i].id \notin updated_book_ids
        kept == SelectSeq([i \in 1..Len(existing_books) |-> i], Unmatched)
    IN  merged \o [i \in 1..Len(kept) |-> deepcopy(ExistingObject(kept[i]))]

\* a list of dicts as its holder sees it after the books of a store were changed in
\* place: a dict that is one of the store's books shows the book's fields
SeenThrough(dicts, kind, objects, books) ==
    [i \in 1..Len(dicts) |->
        LET holders == {k \in 1..Len(objects) : objects[k] = [obj |-> kind, idx |-> i]}
        IN  IF holders = {} THEN dicts[i] ELSE books[Max(holders)]]

update_release_schedules(existing_schedules_, new_books, now, day) ==
    LET existing_books == existing_schedules_.books
        Match(new_book) == MatchExisting(existing_books, new_book)
        merged == [i \in 1..Len(new_books) |->
                      IF Match(new_books[i]) # 0
                      THEN UpdatedBook(existing_books[Match(new_books[i])], new_books[i], now)
                      ELSE new_books[i]]
        updated_book_ids == {existing_books[Match(new_books[i])].id :
                                i \in {j \in 1..Len(new_books) : Match(new_books[j]) # 0}}
        Unmatched(existing) == existing.id \notin updated_book_ids
        kept == SelectSeq(existing_books, Unmatched)
        retained == [i \in 1..Len(kept) |-> [kept[i] EXCEPT !.last_checked = now]]
        final_books == merged \o retained
    IN  [books |-> [i \in 1..Len(final_books) |-> _update_book_status(final_books[i], day)],
         last_updated |-> now]

\* a reminder that is caught up on any day from the seventh before the release on
should_send_reminder_late(book, day) ==
    LET release_date_obj == _parse_date_field(Get(book, "release_date", None))
        notifications == Get(book, "notifications_sent", <<>>)
    IN  /\ Truthy(release_date_obj)
        /\ day >= release_date_obj.d - ReminderDays
        /\ \A i \in 1..Len(notifications) : notifications[i].type # "reminder"

should_send_reminder(book, day) ==
    LET release_date_obj == _parse_date_field(Get(book, "release_date", None))
        notifications == Get(book, "notifications_sent", <<>>)
    IN  /\ Truthy(release_date_obj)
        /\ day = release_date_obj.d - ReminderDays
        /\ \A i \in 1..Len(notifications) : notifications[i].type # "reminder"

\* a release day alert that does not look at the alerts already sent
should_send_release_day_alert_again(book, day) ==
    LET release_date_obj == _parse_date_field(Get(book, "release_date", None))
    IN  /\ Truthy(release_date_obj)
        /\ day = release_date_obj.d

should_send_release_day_alert(book, day) ==
    LET release_date_obj == _parse_date_field(Get(book, "release_date", None))
        notifications == Get(book, "notifications_sent", <<>>)
    IN  /\ Truthy(release_date_obj)
        /\ day = release_date_obj.d
        /\ \A i \in 1..Len(notifications) : notifications[i].type # "release_day"

\* for each entry of the batch in turn: look the record up by the entry's id and
\* append the entry's event to it; an id no record has is only logged
RECURSIVE RecordEvents(_, _)
RecordEvents(books, entries) ==
    IF entries = <<>> THEN books
    ELSE LET idx == _find_book_by_id(books, Head(entries).id)
             marked == IF idx = 0 THEN books
                       ELSE [books EXCEPT ![idx].notifications_sent =
                                Append(@, Head(entries).event)]
         IN  RecordEvents(marked, Tail(entries))

\* a dispatch that records its events whatever the notifier answered
MarkSentUnconfirmed(books, entries, success) ==
    IF entries # <<>> THEN RecordEvents(books, entries) ELSE books

\* the store is touched only when the batch was sent and the send succeeded
MarkSent(books, entries, success) ==
    IF entries # <<>> /\ success THEN RecordEvents(books, entries) ELSE books

Kinds == {"discovery", "date_change", "reminder", "release_day"}

DiscoveryEntries(books, now) ==
    [i \in 1..Len(books) |->
        [id |-> books[i].id, event |-> [type |-> "discovery", date |-> now]]]

DateChangeEntries(changes, now) ==
    [i \in 1..Len(changes) |->
        [id |-> changes[i].book.id,
         event |-> [type |-> "date_change", date |-> now,
                    old_date |-> Str(Get(changes[i], "old_date", EmptyStr)),
                    new_date |-> Str(Get(changes[i], "new_date", EmptyStr))]]]

KindEntries(books, kind, now) ==
    [i \in 1..Len(books) |->
        [id |-> books[i].id, event |-> [type |-> kind, date |-> now]]]

\* the positions, in order, of the books of a list that pass a test
Positions(books, Test(_)) ==
    LET Pass(i) == Test(books[i])
    IN  SelectSeq([i \in 1..Len(books) |-> i], Pass)

\* the books of a list at the given positions
Pick(books, refs) == [i \in 1..Len(refs) |-> books[refs[i]]]

\* lines 386-408: the release day batch is gathered from the store as the three
\* earlier dispatches left it
SendReleaseDay(s3, reminder_books, reminder_refs, success, now, day) ==
    LET ReleaseDay(book) == should_send_release_day_alert(book, day)
        release_day_refs == Positions(s3, ReleaseDay)
        release_day_books == Pick(s3, release_day_refs)
    IN  [books |-> MarkSent(s3, KindEntries(release_day_books, "release_day", now),
                            success["release_day"]),
         reminder_books |-> reminder_books,
         reminder_refs |-> reminder_refs,
         release_day_books |-> release_day_books,
         release_day_refs |-> release_day_refs]

\* lines 362-384, then the release day dispatch
SendReminders(s2, success, now, day) ==
    LET Reminder(book) == should_send_reminder(book, day)
        reminder_refs == Positions(s2, Reminder)
        reminder_books == Pick(s2, reminder_refs)
    IN  SendReleaseDay(MarkSent(s2, KindEntries(reminder_books, "reminder", now),
                                success["reminder"]),
                       reminder_books, reminder_refs, success, now, day)

\* the books of the store after the four dispatches, and the two day-gated batches
\* as the positions of their books in the store (the batches hold the store's own
\* book objects)
send_notifications(schedules, new_discoveries_, date_changes_, success, now, day) ==
    SendReminders(
        MarkSent(MarkSent(schedules.books, DiscoveryEntries(new_discoveries_, now),
                          success["discovery"]),
                 DateChangeEntries(date_changes_, now), success["date_change"]),
        success, now, day)

\* a cleanup that also removes the record released exactly on the cutoff day
cleanup_old_releases_inclusive(schedules, day) ==
    LET cutoff_date == day - RetentionDays
        Keep(book) ==
            LET release_date_obj == _parse_date_field(Get(book, "release_date", None))
            IN  ~(Truthy(release_date_obj) /\ release_date_obj.d <= cutoff_date)
    IN  [schedules EXCEPT !.books = SelectSeq(schedules.books, Keep)]

cleanup_old_releases(schedules, day) ==
    LET cutoff_date == day - RetentionDays
        Keep(book) ==
            LET release_date_obj == _parse_date_field(Get(book, "release_date", None))
            IN  ~(Truthy(release_date_obj) /\ release_date_obj.d < cutoff_date)
    IN  [schedules EXCEPT !.books = SelectSeq(schedules.books, Keep)]

\* the positions of the candidates new_discoveries holds
NewPositions(existing_schedules_, books) ==
    LET IsNew(i) == find_existing_book(books[i], existing_schedules_) = 0
    IN  SelectSeq([i \in 1..Len(books) |-> i], IsNew)

\* lines 56-78 of run_monitoring_cycle: the two side-channels
NewDiscoveries(existing_schedules_, books) ==
    LET IsNew(book) == find_existing_book(book, existing_schedules_) = 0
    IN  SelectSeq(books, IsNew)

DateChanges(existing_schedules_, books) ==
    LET Existing(book) == existing_schedules_.books[find_existing_book(book, existing_schedules_)]
        Changed(book) ==
            /\ find_existing_book(book, existing_schedules_) # 0
            /\ has_date_changed(book, Existing(book))
        changed == SelectSeq(books, Changed)
    IN  [i \in 1..Len(changed) |->
            [book |-> changed[i],
             old_date |-> Get(Existing(changed[i]), "release_date", None),
             new_date |-> Get(changed[i], "release_date", None)]]

----------------------------------------------------------------------------
(* The monitoring cycle *)

\* the days the job is run on
TodayDays == {0, 7, 188}

NoCall == [attempted |-> FALSE, ok |-> FALSE, batch |-> <<>>, refs |-> <<>>]

NothingUndelivered == [discovery |-> <<>>, date_change |-> <<>>]

NoCalls == [kind \in Kinds |-> NoCall]

\* no call of parse_release_date has returned
NotParsed == [done |-> FALSE, value |-> <<>>]

Init ==
    /\ date_text = <<>>
    /\ parsed = NotParsed
    /\ today = 0
    /\ disk = NoFile
    /\ pc = "idle"
    /\ author_idx = 0
    /\ existing_schedules = EmptyStore(0)
    /\ all_discovered_books = <<>>
    /\ new_discoveries = <<>>
    /\ date_changes = <<>>
    /\ updated_schedules = EmptyStore(0)
    /\ outbox = NoCalls
    /\ undelivered = NothingUndelivered
    /\ result = "none"
    /\ save_ok = "none"
    /\ failure_alerts = <<>>
    /\ cycles = 0
    /\ final_book_objects = <<>>
    /\ last_scrape = NoScrape

\* lines 36-47: the configuration and the store are loaded
StartCycle ==
    /\ pc = "idle"
    /\ cycles < MaxCycles
    /\ cycles' = cycles + 1
    /\ Authors # <<>>
    /\ existing_schedules' = load_release_schedules(disk, today)
    /\ all_discovered_books' = <<>>
    /\ author_idx' = 1
    /\ pc' = "scrape"
    /\ result' = "none"
    /\ save_ok' = "none"
    /\ failure_alerts' = <<>>
    /\ last_scrape' = NoScrape
    /\ UNCHANGED <<today, disk, new_discoveries, date_changes, updated_schedules, outbox,
                   undelivered, final_book_objects,
                   date_text, parsed>>

\* a loop that starts its list again when an author's call returned nothing
\* after a failure
ExtendDiscoveredOrReset(all_books, run) ==
    IF run.failed # "no" THEN <<>> ELSE all_books \o run.returned

\* line 54: all_discovered_books.extend(books)
ExtendDiscovered(all_books, run) == all_books \o run.returned

\* lines 48-54: one iteration of the loop over the authors
ScrapeAuthor ==
    /\ pc = "scrape"
    /\ author_idx <= Len(Authors)
    /\ \/ /\ Get(Authors[author_idx], "status", "") # "active"
          /\ UNCHANGED all_discovered_books
          /\ last_scrape' = NoScrape
       \/ /\ Get(Authors[author_idx], "status", "") = "active"
          /\ \E page \in AuthorPages(Authors[author_idx]) :
                /\ all_discovered_books' =
                        ExtendDiscovered(all_discovered_books,
                                         ScrapeRun(Authors[author_idx], page, today, today))
                /\ last_scrape' = ScrapeRun(Authors[author_idx], page, today, today)
                /\ Len(update_release_schedules(existing_schedules, all_discovered_books',
                                                today, today).books) <= MaxBooks
    /\ author_idx' = author_idx + 1
    /\ UNCHANGED <<today, disk, pc, existing_schedules, new_discoveries, date_changes,
                   updated_schedules, outbox, undelivered, result, save_ok, failure_alerts, cycles, final_book_objects,
                   date_text, parsed>>

\* lines 56-78
ProcessDiscovered ==
    /\ pc = "scrape"
    /\ author_idx > Len(Authors)
    /\ new_discoveries' = NewDiscoveries(existing_schedules, all_discovered_books)
    /\ date_changes' = DateChanges(existing_schedules, all_discovered_books)
    /\ last_scrape' = NoScrape
    /\ pc' = "update"
    /\ UNCHANGED <<today, disk, author_idx, existing_schedules, all_discovered_books,
                   updated_schedules, outbox, undelivered, result, save_ok, failure_alerts, cycles, final_book_objects,
                   date_text, parsed>>

\* the books of updated_schedules were changed in place: the lists of the cycle
\* that hold one of these objects see it as it is now
InPlace ==
    /\ existing_schedules' =
          [existing_schedules EXCEPT !.books =
              SeenThrough(@, "existing", final_book_objects', updated_schedules'.books)]
    /\ all_discovered_books' =
          SeenThrough(all_discovered_books, "candidate", final_book_objects',
                      updated_schedules'.books)
    /\ new_discoveries' =
          Pick(all_discovered_books',
               NewPositions(existing_schedules, all_discovered_books))

\* lines 80-83
UpdateSchedules ==
    /\ pc = "update"
    /\ updated_schedules' =
            update_release_schedules(existing_schedules, all_discovered_books, today, today)
    /\ final_book_objects' = final_books_objects(existing_schedules, all_discovered_books)
    /\ InPlace
    /\ pc' = "notify"
    /\ UNCHANGED <<today, disk, author_idx, date_changes, outbox, undelivered, result,
                   save_ok, failure_alerts, cycles, last_scrape,
                   date_text, parsed>>

\* line 87: the four dispatches, each send succeeding or failing
Dispatch ==
    /\ pc = "notify"
    /\ \E success \in [Kinds -> BOOLEAN] :
          LET sent == send_notifications(updated_schedules, new_discoveries, date_changes,
                                         success, today, today)
              changed_books == [i \in 1..Len(date_changes) |-> date_changes[i].book]
              batch == [kind \in Kinds |->
                          CASE kind = "discovery" -> new_discoveries
                            [] kind = "date_change" -> changed_books
                            [] kind = "reminder" -> sent.reminder_books
                            [] kind = "release_day" -> sent.release_day_books]
              refs == [kind \in Kinds |->
                          CASE kind = "reminder" -> sent.reminder_refs
                            [] kind = "release_day" -> sent.release_day_refs
                            [] OTHER -> <<>>]
          IN  /\ \A kind \in Kinds : batch[kind] = <<>> => ~success[kind]
              /\ \A i \in 1..Len(sent.books) :
                    Len(sent.books[i].notifications_sent) <= MaxEvents
              /\ updated_schedules' = [updated_schedules EXCEPT !.books = sent.books]
              /\ outbox' = [kind \in Kinds |->
                              [attempted |-> batch[kind] # <<>>,
                               ok |-> success[kind],
                               batch |-> batch[kind],
                               refs |-> refs[kind]]]
    /\ UNCHANGED final_book_objects
    /\ InPlace
    /\ pc' = "cleanup"
    /\ UNCHANGED <<today, disk, author_idx, date_changes, result, save_ok, failure_alerts,
                   cycles, last_scrape,
                   date_text, parsed>>

SendNotifications ==
    /\ Dispatch
    /\ UNCHANGED undelivered

\* the same dispatch, observed: the batches whose send failed are remembered
SendNotificationsObserved ==
    /\ Dispatch
    /\ undelivered' =
          [kind \in {"discovery", "date_change"} |->
              IF outbox'[kind].attempted /\ ~outbox'[kind].ok
              THEN outbox'[kind].batch ELSE <<>>]

\* a cleanup that runs in place of the dispatch
CleanupBeforeDispatch ==
    /\ pc = "notify"
    /\ updated_schedules' = cleanup_old_releases(updated_schedules, today)
    /\ final_book_objects' = <<>>
    /\ pc' = "save"
    /\ UNCHANGED <<today, disk, author_idx, existing_schedules, all_discovered_books,
                   new_discoveries, date_changes, outbox, undelivered, result, save_ok,
                   failure_alerts, cycles, last_scrape,
                   date_text, parsed>>

\* line 90
CleanupOldReleases ==
    /\ pc = "cleanup"
    /\ updated_schedules' = cleanup_old_releases(updated_schedules, today)
    /\ final_book_objects' = <<>>
    /\ pc' = "save"
    /\ UNCHANGED <<today, disk, author_idx, existing_schedules, all_discovered_books,
                   new_discoveries, date_changes, outbox, undelivered, result, save_ok, failure_alerts, cycles, last_scrape,
                   date_text, parsed>>

\* how a save can end: the file is rewritten; open() fails and the file is as it
\* was; or open(..., 'w') has emptied the file and json.dump fails part-way
SaveOutcomes == {"written", "not_opened", "torn"}

\* a file that exists but does not hold a complete JSON document
TornFile == [exists |-> TRUE, valid |-> FALSE]

\* what save_release_schedules leaves in the file
save_release_schedules(file, schedules, now, outcome) ==
    CASE outcome = "written" ->
            [exists |-> TRUE, valid |-> TRUE,
             content |-> JsonStore([schedules EXCEPT !.last_updated = now])]
      [] outcome = "not_opened" -> file
      [] outcome = "torn" -> TornFile

\* what save_release_schedules returns
SaveReturns(outcome) == IF outcome = "written" THEN "True" ELSE "False"

\* lines 92-96: the store is saved, its outcome is not looked at, the cycle
\* returns True and its locals are gone
SaveSchedules ==
    /\ pc = "save"
    /\ \E outcome \in SaveOutcomes :
          /\ disk' = save_release_schedules(disk, updated_schedules, today, outcome)
          /\ save_ok' = SaveReturns(outcome)
    /\ result' = "True"
    /\ pc' = "idle"
    /\ author_idx' = 0
    /\ existing_schedules' = EmptyStore(0)
    /\ all_discovered_books' = <<>>
    /\ new_discoveries' = <<>>
    /\ date_changes' = <<>>
    /\ updated_schedules' = EmptyStore(0)
    /\ last_scrape' = NoScrape
    /\ final_book_objects' = <<>>
    /\ outbox' = NoCalls
    /\ UNCHANGED <<today, undelivered, failure_alerts, cycles,
                   date_text, parsed>>

\* lines 36 and 98: an exception raised by a step between the load and the save
\* leaves the try block; the locals are not read again
Raise ==
    /\ pc \in {"scrape", "update", "notify", "cleanup"}
    /\ pc' = "except"
    /\ author_idx' = 0
    /\ existing_schedules' = EmptyStore(0)
    /\ all_discovered_books' = <<>>
    /\ new_discoveries' = <<>>
    /\ date_changes' = <<>>
    /\ updated_schedules' = EmptyStore(0)
    /\ last_scrape' = NoScrape
    /\ final_book_objects' = <<>>
    /\ outbox' = NoCalls
    /\ UNCHANGED <<today, disk, undelivered, result, save_ok, failure_alerts, cycles,
                   date_text, parsed>>

\* how send_tracker_failure_alert can end for its caller
AlertOutcomes == {"True", "False", "raised"}

\* an alert whose own failure escapes the handler
CycleResultAlertEscapes(outcome) == IF outcome = "raised" THEN "raised" ELSE "False"

\* lines 102-108: an exception of the alert is caught and logged; the cycle
\* returns False
CycleResultAfterAlert(outcome) == "False"

\* lines 98-108: the handler of run_monitoring_cycle
FailureAlert ==
    /\ pc = "except"
    /\ \E outcome \in AlertOutcomes :
          /\ failure_alerts' = Append(failure_alerts, outcome)
          /\ result' = CycleResultAfterAlert(outcome)
    /\ pc' = "idle"
    /\ UNCHANGED <<today, disk, author_idx, existing_schedules, all_discovered_books,
                   new_discoveries, date_changes, updated_schedules, outbox, undelivered,
                   save_ok, cycles, last_scrape, final_book_objects,
                   date_text, parsed>>

\* main, lines 493-506: the exit code of the process
ExitCode(success) == IF success = "True" THEN 0 ELSE 1

\* the calendar moves on between two runs of the job
AdvanceDay ==
    /\ pc = "idle"
    /\ \E day \in TodayDays : day > today /\ today' = day
    /\ UNCHANGED <<disk, pc, author_idx, existing_schedules, all_discovered_books,
                   new_discoveries, date_changes, updated_schedules, outbox, undelivered,
                   result, save_ok, failure_alerts, cycles, last_scrape, final_book_objects,
                   date_text, parsed>>

Next ==
    \/ StartCycle
    \/ ScrapeAuthor
    \/ ProcessDiscovered
    \/ UpdateSchedules
    \/ SendNotifications
    \/ CleanupOldReleases
    \/ SaveSchedules
    \/ Raise
    \/ FailureAlert
    \/ AdvanceDay

Spec == Init /\ [][Next]_vars

NextObserved ==
    \/ StartCycle
    \/ ScrapeAuthor
    \/ ProcessDiscovered
    \/ UpdateSchedules
    \/ SendNotificationsObserved
    \/ CleanupOldReleases
    \/ SaveSchedules
    \/ Raise
    \/ FailureAlert
    \/ AdvanceDay

\* the cycle with the failed sends of the latest dispatch remembered
SpecObserved == Init /\ [][NextObserved]_vars

\* a call of parse_release_date on one of the texts
InitParse ==
    /\ date_text \in DateTexts
    /\ parsed = NotParsed
    /\ today = 0
    /\ disk = NoFile
    /\ pc = "idle"
    /\ author_idx = 0
    /\ existing_schedules = EmptyStore(0)
    /\ all_discovered_books = <<>>
    /\ new_discoveries = <<>>
    /\ date_changes = <<>>
    /\ updated_schedules = EmptyStore(0)
    /\ outbox = NoCalls
    /\ undelivered = NothingUndelivered
    /\ result = "none"
    /\ save_ok = "none"
    /\ failure_alerts = <<>>
    /\ cycles = 0
    /\ final_book_objects = <<>>
    /\ last_scrape = NoScrape

\* lines 430-493: the call returns
ParseReleaseDate ==
    /\ ~parsed.done
    /\ parsed' = [done |-> TRUE, value |-> parse_release_date(date_text)]
    /\ UNCHANGED <<today, disk, pc, author_idx, existing_schedules, all_discovered_books,
                   new_discoveries, date_changes, updated_schedules, outbox, undelivered,
                   result, save_ok, failure_alerts, cycles, final_book_objects,
                   last_scrape, date_text>>

NextParse == ParseReleaseDate

\* parse_release_date alone, on each of the texts
SpecParse == InitParse /\ [][NextParse]_vars

----------------------------------------------------------------------------
(* Properties *)

StoredBooks == IF disk.exists /\ disk.valid THEN disk.content.books ELSE <<>>

CountType(book, type) ==
    Cardinality({i \in 1..Len(book.notifications_sent) :
                    book.notifications_sent[i].type = type})

UniqueIds(books) ==
    \A i, j \in 1..Len(books) : i # j => books[i].id # books[j].id

HasDate(book) == Truthy(book.release_date)

\* the positions, in the reconciled store, of the candidates of the discovery batch
DiscoveryAffected ==
    {i \in 1..Len(all_discovered_books) :
        find_existing_book(all_discovered_books[i], existing_schedules) = 0}

\* the positions, in the reconciled store, of the candidates of the date_change batch
DateChangeAffected ==
    {i \in 1..Len(all_discovered_books) :
        LET idx == find_existing_book(all_discovered_books[i], existing_schedules)
        IN  /\ idx # 0
            /\ has_date_changed(all_discovered_books[i], existing_schedules.books[idx])}

Range(seq) == {seq[i] : i \in 1..Len(seq)}

\* C1: every persisted record holds at most one discovery, at most one reminder
\* and at most one release_day event.
C1_AtMostOnePerKind ==
    \A i \in 1..Len(StoredBooks) :
        \A kind \in {"discovery", "reminder", "release_day"} :
            CountType(StoredBooks[i], kind) <= 1

\* C2: in the store update_release_schedules returns, a record is released exactly
\* when its release date is present and not after today.
C2_StatusIffReleased ==
    pc = "notify" =>
        \A i \in 1..Len(updated_schedules.books) :
            LET book == updated_schedules.books[i]
            IN  (book.status = "released") <=>
                    (HasDate(book) /\ book.release_date.d <= today)

\* C3: no two records of the persisted store have the same id.
C3_StoreKeyedById == UniqueIds(StoredBooks)

\* C4: when the send of a kind succeeded, every record the batch concerns has got
\* an event of that kind, whether its candidate matched by id or by title and
\* author.  Stated for reconciled stores whose ids are all different.
C4_SuccessRecordsEvent ==
    [][(pc = "notify" /\ pc' = "cleanup" /\ UniqueIds(updated_schedules.books)) =>
        LET Gained(i, kind) ==
                CountType(updated_schedules'.books[i], kind)
                    > CountType(updated_schedules.books[i], kind)
        IN  /\ outbox'["discovery"].ok => \A i \in DiscoveryAffected : Gained(i, "discovery")
            /\ outbox'["date_change"].ok =>
                    \A i \in DateChangeAffected : Gained(i, "date_change")
            /\ outbox'["reminder"].ok =>
                    \A i \in Range(outbox'["reminder"].refs) : Gained(i, "reminder")
            /\ outbox'["release_day"].ok =>
                    \A i \in Range(outbox'["release_day"].refs) : Gained(i, "release_day")
      ]_vars

\* C5: a send that failed leaves every record without a new event of its kind, and
\* a dispatch none of whose sends succeeded leaves every history as it was.
C5_FailedSendRecordsNothing ==
    [][(pc = "notify" /\ pc' = "cleanup") =>
        /\ Len(updated_schedules'.books) = Len(updated_schedules.books)
        /\ \A kind \in Kinds :
              (outbox'[kind].attempted /\ ~outbox'[kind].ok) =>
                  \A i \in 1..Len(updated_schedules.books) :
                      CountType(updated_schedules'.books[i], kind)
                          = CountType(updated_schedules.books[i], kind)
        /\ (\A kind \in Kinds : ~outbox'[kind].ok) =>
              \A i \in 1..Len(updated_schedules.books) :
                  updated_schedules'.books[i].notifications_sent
                      = updated_schedules.books[i].notifications_sent
      ]_vars

\* a dispatch in which one send failed and another succeeded
C5_Witness ==
    /\ pc = "cleanup"
    /\ \E failed, passed \in Kinds :
          /\ outbox[failed].attempted /\ ~outbox[failed].ok
          /\ outbox[passed].attempted /\ outbox[passed].ok

SameCandidate(a, b) ==
    /\ a.id = b.id
    /\ a.title = b.title
    /\ a.author = b.author
    /\ a.release_date = b.release_date

\* C6: a candidate whose discovery (date_change) send failed in the latest dispatch
\* and which the page yields again is in new_discoveries (date_changes) again.
C6_RetriedUntilSent ==
    pc = "update" =>
        /\ \A c \in Range(undelivered.discovery) :
              (\E b \in Range(all_discovered_books) : SameCandidate(b, c))
                  => \E b \in Range(new_discoveries) : SameCandidate(b, c)
        /\ \A c \in Range(undelivered.date_change) :
              (\E b \in Range(all_discovered_books) : SameCandidate(b, c))
                  => \E i \in 1..Len(date_changes) : SameCandidate(date_changes[i].book, c)

\* C7: in a dispatch the reminder batch holds exactly the records of the reconciled
\* store that have a release date, are seven days before it today and hold no
\* reminder event; so none fires past that day, sent or not.
C7_ReminderGate ==
    [][(pc = "notify" /\ pc' = "cleanup") =>
        \A i \in 1..Len(updated_schedules.books) :
            LET book == updated_schedules.books[i]
            IN  (i \in Range(outbox'["reminder"].refs)) <=>
                    /\ HasDate(book)
                    /\ today = book.release_date.d - 7
                    /\ CountType(book, "reminder") = 0
      ]_vars

\* a reminder was sent for a record and is now in its history
C7_Witness ==
    /\ pc = "cleanup"
    /\ outbox["reminder"].ok
    /\ \E i \in Range(outbox["reminder"].refs) :
          CountType(updated_schedules.books[i], "reminder") = 1

\* C8: in a dispatch the release_day batch holds exactly the records of the
\* reconciled store (the candidates' dates applied) whose release date is today
\* and that hold no release_day event.
C8_ReleaseDayGate ==
    [][(pc = "notify" /\ pc' = "cleanup") =>
        \A i \in 1..Len(updated_schedules.books) :
            LET book == updated_schedules.books[i]
            IN  (i \in Range(outbox'["release_day"].refs)) <=>
                    /\ HasDate(book)
                    /\ today = book.release_date.d
                    /\ CountType(book, "release_day") = 0
      ]_vars

\* the alert fires for a record whose date this cycle's candidate moved to today
C8_Witness ==
    /\ pc = "cleanup"
    /\ outbox["release_day"].attempted
    /\ \E i \in Range(outbox["release_day"].refs) :
          /\ i \in DateChangeAffected
          /\ all_discovered_books[i].release_date.d = today

\* C9: the store update_release_schedules returns has every record of its input,
\* and at least as many records.
C9_NothingDeleted ==
    pc = "notify" =>
        /\ Len(updated_schedules.books) >= Len(existing_schedules.books)
        /\ \A i \in 1..Len(existing_schedules.books) :
              \E j \in 1..Len(updated_schedules.books) :
                  updated_schedules.books[j].id = existing_schedules.books[i].id

\* C10: a matched record's title, release_date and source_url are the candidate's
\* where the candidate has one and the stored ones where it has none.
C10_CandidateValueIfPresent ==
    pc = "notify" =>
        \A i \in 1..Len(all_discovered_books) :
            LET new_book == all_discovered_books[i]
                idx == MatchExisting(existing_schedules.books, new_book)
                existing == existing_schedules.books[idx]
                book == updated_schedules.books[i]
            IN  idx # 0 =>
                    /\ book.title = IF new_book.title # <<>> THEN new_book.title
                                    ELSE existing.title
                    /\ book.release_date = IF Truthy(new_book.release_date)
                                           THEN new_book.release_date
                                           ELSE existing.release_date
                    /\ book.source_url = IF new_book.source_url # ""
                                         THEN new_book.source_url
                                         ELSE existing.source_url

\* the history a record carries: its id, its discovery date and its events
SameHistory(a, b) ==
    /\ a.id = b.id
    /\ a.discovery_date = b.discovery_date
    /\ a.notifications_sent = b.notifications_sent

\* C11: the record a matched candidate yields has the id, the discovery_date and
\* the notifications_sent of the record it matched, and every record of the input
\* store is in the returned store with its history as it was.
C11_HistoryCarriedOver ==
    pc = "notify" =>
        /\ \A i \in 1..Len(all_discovered_books) :
              LET idx == MatchExisting(existing_schedules.books, all_discovered_books[i])
              IN  idx # 0 =>
                      SameHistory(updated_schedules.books[i], existing_schedules.books[idx])
        /\ \A i \in 1..Len(existing_schedules.books) :
              \E j \in 1..Len(updated_schedules.books) :
                  SameHistory(updated_schedules.books[j], existing_schedules.books[i])

\* a record without its last_checked stamp
WithoutLastChecked(book) == [book EXCEPT !.last_checked = 0]

\* C12: reconciling the candidates of the cycle a second time against the store
\* the first reconciliation returned gives the same records, last_checked aside.
C12_ReconcileIdempotent ==
    pc = "notify" =>
        LET once == updated_schedules.books
            twice == update_release_schedules(updated_schedules, all_discovered_books,
                                              today, today).books
        IN  /\ Len(twice) = Len(once)
            /\ {WithoutLastChecked(twice[i]) : i \in 1..Len(twice)}
                   = {WithoutLastChecked(once[i]) : i \in 1..Len(once)}

\* the record a candidate was merged into: its history, under the candidate's title
IsUpdateOf(updated, existing, new_book) ==
    /\ SameHistory(updated, existing)
    /\ updated.title = new_book.title

\* C13: a candidate whose id is the id of an existing record is merged into a
\* record of that id, whatever its title; only when no record has its id is it
\* merged into a record of its lower-cased title and author; else it is added.
C13_IdentityFirst ==
    pc = "notify" =>
        \A i \in 1..Len(all_discovered_books) :
            LET new_book == all_discovered_books[i]
                existing_books == existing_schedules.books
                ById == {j \in 1..Len(existing_books) : existing_books[j].id = new_book.id}
                ByPair == {j \in 1..Len(existing_books) :
                              TitleAuthorKey(existing_books[j]) = TitleAuthorKey(new_book)}
                book == updated_schedules.books[i]
            IN  /\ ById # {} =>
                      \E j \in ById : IsUpdateOf(book, existing_books[j], new_book)
                /\ (ById = {} /\ ByPair # {}) =>
                      \E j \in ByPair : IsUpdateOf(book, existing_books[j], new_book)
                /\ (ById = {} /\ ByPair = {}) =>
                      /\ book.id = new_book.id
                      /\ book.notifications_sent = <<>>

\* a candidate is merged by its id into a record stored under another title
C13_Witness ==
    /\ pc = "notify"
    /\ \E i \in 1..Len(all_discovered_books) :
          \E j \in 1..Len(existing_schedules.books) :
              /\ existing_schedules.books[j].id = all_discovered_books[i].id
              /\ TitleAuthorKey(existing_schedules.books[j])
                     # TitleAuthorKey(all_discovered_books[i])
              /\ IsUpdateOf(updated_schedules.books[i], existing_schedules.books[j],
                            all_discovered_books[i])

DateText(v) == IF v.k \in {"date", "str"} THEN <<v.d>> ELSE <<>>

\* C15: date_changes holds, in the candidates' order, one entry for each candidate
\* that matches a record whose release date reads differently from the
\* candidate's, carrying the stored date and the candidate's date.
C15_DateChangeIffTextDiffers ==
    pc = "update" =>
        LET Stored(book) ==
                existing_schedules.books[find_existing_book(book, existing_schedules)]
            Moved(book) ==
                /\ find_existing_book(book, existing_schedules) # 0
                /\ DateText(Stored(book).release_date) # DateText(book.release_date)
            moved == SelectSeq(all_discovered_books, Moved)
        IN  /\ Len(date_changes) = Len(moved)
            /\ \A i \in 1..Len(moved) :
                  /\ date_changes[i].book = moved[i]
                  /\ date_changes[i].old_date = Stored(moved[i]).release_date
                  /\ date_changes[i].new_date = moved[i].release_date

\* one candidate's date moved, or went missing, against the stored ISO string
C15_Witness ==
    /\ pc = "update"
    /\ \E i \in 1..Len(date_changes) :
          /\ date_changes[i].old_date.k = "str"
          /\ date_changes[i].new_date.k \in {"date", "none"}

\* C16: the cleanup step removes exactly the records whose release date is present
\* and more than 180 days before today, and leaves the others, in their order,
\* as they were.
C16_CleanupBoundary ==
    [][(pc = "cleanup" /\ pc' = "save") =>
        LET Kept(book) == ~(HasDate(book) /\ today - book.release_date.d > 180)
        IN  updated_schedules' =
                [updated_schedules EXCEPT
                    !.books = SelectSeq(updated_schedules.books, Kept)]
      ]_vars

\* a cleanup that removed a dated record and kept the record without a date
C16_Witness ==
    /\ pc = "save"
    /\ all_discovered_books = <<>>
    /\ Len(existing_schedules.books) = 2
    /\ Len(updated_schedules.books) = 1
    /\ ~HasDate(updated_schedules.books[1])

\* the events of the records of a store, record by record
Histories(schedules) ==
    [i \in 1..Len(schedules.books) |-> schedules.books[i].notifications_sent]

\* C17: the dispatch is entered only from the reconciliation, the cleanup only
\* from the dispatch and the save only from the cleanup; no history changes
\* outside the dispatch, where only removals come after it; and the file is
\* written by the save alone.
C17_StepOrder ==
    [][/\ (pc' = "notify" /\ pc # "notify") => pc = "update"
       /\ (pc' = "cleanup" /\ pc # "cleanup") => pc = "notify"
       /\ (pc' = "save" /\ pc # "save") => pc = "cleanup"
       /\ (pc \in {"notify", "cleanup"} /\ pc' \in {"notify", "cleanup", "save"}
              /\ Histories(updated_schedules') # Histories(updated_schedules))
            => (pc = "notify" \/ Len(updated_schedules'.books) < Len(updated_schedules.books))
       /\ disk' # disk => pc = "save"
      ]_vars

\* an event recorded by this cycle's dispatch is in the store about to be saved
C17_Witness ==
    /\ pc = "save"
    /\ \E kind \in Kinds : outbox[kind].ok
    /\ \E i \in 1..Len(updated_schedules.books) :
          \E k \in 1..Len(updated_schedules.books[i].notifications_sent) :
              updated_schedules.books[i].notifications_sent[k].date = today

\* C18: the file changes only in the save step that ends a cycle, and then to the
\* complete store of that cycle; a step of a failing cycle leaves it as it was.
C18_StoreWrittenWholeOrNot ==
    [][/\ disk' # disk =>
            /\ pc = "save"
            /\ pc' = "idle"
            /\ disk' = [exists |-> TRUE, valid |-> TRUE,
                        content |-> JsonStore([updated_schedules EXCEPT
                                                  !.last_updated = today])]
       /\ (pc = "except" \/ pc' = "except") => disk' = disk
      ]_vars

\* C19: a cycle whose save failed returns False, and the process exits with 1.
C19_SaveFailureReported ==
    (pc = "idle" /\ save_ok = "False") =>
        (result = "False" /\ ExitCode(result) = 1)

\* C20: the handler is entered with no alert sent yet; it sends one alert and,
\* whatever became of it, the cycle ends returning False, the process exits with
\* 1, and the file is as it was.
C20_FailureCaught ==
    [][/\ pc' = "except" => (pc \in {"scrape", "update", "notify", "cleanup"}
                              /\ failure_alerts' = <<>>)
       /\ pc = "except" =>
            /\ pc' = "idle"
            /\ Len(failure_alerts') = 1
            /\ result' = "False"
            /\ ExitCode(result') = 1
            /\ disk' = disk
      ]_vars

\* a cycle that ended in the handler although the alert itself raised
C20_Witness ==
    /\ pc = "idle"
    /\ failure_alerts = <<"raised">>
    /\ result = "False"

\* a step of the loop that called scrape_author_releases
ScrapeCalled ==
    /\ pc = "scrape"
    /\ author_idx' = author_idx + 1
    /\ last_scrape'.failed # "none"

\* C21: a call of scrape_author_releases that failed to fetch or to extract leaves
\* the loop running: the cycle is not aborted, the author adds no candidate, the
\* candidates of the authors before it are kept and the next author is looked at;
\* the list handed on to the reconciliation is the one the calls returned.
C21_FailedAuthorSkipped ==
    [][ScrapeCalled =>
        /\ pc' = "scrape"
        /\ all_discovered_books' = all_discovered_books \o last_scrape'.returned
        /\ existing_schedules' = existing_schedules
        /\ last_scrape'.failed # "no" =>
              /\ last_scrape'.returned = <<>>
              /\ all_discovered_books' = all_discovered_books
      ]_vars

\* the second active author's page could not be fetched after the first one's
\* yielded a candidate
C21_Witness ==
    /\ pc = "scrape"
    /\ author_idx > Len(Authors)
    /\ last_scrape.failed = "fetch"
    /\ all_discovered_books # <<>>

\* the position of the first book of a list having the pair of a book
FirstOfPair(books, book) ==
    Min({j \in 1..Len(books) : TitleAuthorKey(books[j]) = TitleAuthorKey(book)})

C23_StructuredDataFirst ==
    last_scrape.failed = "no" =>
        /\ last_scrape.books =
              last_scrape.json_ld_books \o last_scrape.faq_books \o last_scrape.html_books
        /\ \A i \in 1..Len(last_scrape.json_ld_books) :
              \A j \in 1..Len(last_scrape.faq_books) :
                  TitleAuthorKey(last_scrape.json_ld_books[i])
                        = TitleAuthorKey(last_scrape.faq_books[j])
                    => /\ \E k \in 1..Len(last_scrape.unique_books) :
                             last_scrape.unique_books[k] = last_scrape.json_ld_books[i]
                       /\ \A k \in 1..Len(last_scrape.unique_books) :
                             last_scrape.unique_books[k] # last_scrape.faq_books[j]

\* a draft of the tabular strategy
FromHtml(book) == "html_source" \in DOMAIN book.metadata

\* C24: when the structured-data or the pattern-text strategy yields a draft, the
\* tabular strategy is not consulted and no draft of the output comes from it.
C24_HtmlOnlyAsFallback ==
    (/\ last_scrape.failed = "no"
     /\ (last_scrape.faq_books # <<>> \/ last_scrape.json_ld_books # <<>>)) =>
        /\ last_scrape.html_books = <<>>
        /\ \A k \in 1..Len(last_scrape.unique_books) : ~FromHtml(last_scrape.unique_books[k])
        /\ \A k \in 1..Len(last_scrape.returned) : ~FromHtml(last_scrape.returned[k])

\* a book without a release date or with one that is not before today
NotPast(book) == ~HasDate(book) \/ book.release_date.d >= today

\* C30: every candidate has no release date or one on or after today, and no
\* candidate matches a stored record whose release date has passed: such a record
\* is only retained.
C30_PastRecordNeverMatched ==
    pc = "notify" =>
        /\ \A i \in 1..Len(all_discovered_books) : NotPast(all_discovered_books[i])
        /\ \A j \in 1..Len(existing_schedules.books) :
              ~NotPast(existing_schedules.books[j]) =>
                  \A i \in 1..Len(all_discovered_books) :
                      MatchExisting(existing_schedules.books, all_discovered_books[i]) # j

\* C30, as the code has it: scrape_author_releases returns the deduplicated drafts
\* that have no release date or one on or after today, in their order, so every
\* candidate of the cycle, and every candidate that matches a stored record whose
\* release date has passed, has no date or a date that is not before today.
C30_CandidatesUpcoming ==
    /\ last_scrape.failed = "no" =>
            last_scrape.returned = SelectSeq(last_scrape.unique_books, NotPast)
    /\ \A i \in 1..Len(all_discovered_books) : NotPast(all_discovered_books[i])
    /\ pc = "notify" =>
            \A i \in 1..Len(all_discovered_books) :
                LET idx == MatchExisting(existing_schedules.books, all_discovered_books[i])
                IN  (idx # 0 /\ ~NotPast(existing_schedules.books[idx]))
                        => NotPast(all_discovered_books[i])

\* a draft dated before today was extracted and is not among the candidates
C30_Witness ==
    /\ last_scrape.failed = "no"
    /\ \E k \in 1..Len(last_scrape.unique_books) :
          /\ ~NotPast(last_scrape.unique_books[k])
          /\ \A i \in 1..Len(all_discovered_books) :
                all_discovered_books[i] # last_scrape.unique_books[k]

\* the number of date_change events the dispatch step appends to a record
DateChangesGained(i) ==
    CountType(updated_schedules'.books[i], "date_change")
        - CountType(updated_schedules.books[i], "date_change")

\* C27: one cycle appends at most one date_change event to a record, and appends
\* one only to a record whose release date reads differently from what the store
\* held for it when the cycle began, so that the events of a record never outnumber
\* the changes of its stored release date.
C27_OneDateChangePerTransition ==
    [][(pc = "notify" /\ pc' = "cleanup") =>
        \A i \in 1..Len(updated_schedules.books) :
            /\ DateChangesGained(i) <= 1
            /\ DateChangesGained(i) >= 1 =>
                  \E j \in 1..Len(existing_schedules.books) :
                      /\ existing_schedules.books[j].id = updated_schedules.books[i].id
                      /\ DateText(existing_schedules.books[j].release_date)
                            # DateText(updated_schedules.books[i].release_date)
      ]_vars

Ids(books) == [i \in 1..Len(books) |-> books[i].id]

\* C29: a record keeps its id: the record a matched candidate is merged into has
\* the id of the stored record, whatever id the candidate carries; every stored id
\* is in the reconciled store; the dispatch changes no id, the cleanup only
\* removes records, and the ids are saved and loaded as they are.
C29_IdFixed ==
    [][/\ (pc = "update" /\ pc' = "notify") =>
            /\ \A i \in 1..Len(all_discovered_books) :
                  LET idx == MatchExisting(existing_schedules.books, all_discovered_books[i])
                  IN  idx # 0 =>
                        updated_schedules'.books[i].id = existing_schedules.books[idx].id
            /\ Range(Ids(existing_schedules.books)) \subseteq Range(Ids(updated_schedules'.books))
       /\ (pc = "notify" /\ pc' = "cleanup") =>
            Ids(updated_schedules'.books) = Ids(updated_schedules.books)
       /\ (pc = "cleanup" /\ pc' = "save") =>
            Range(updated_schedules'.books) \subseteq Range(updated_schedules.books)
       /\ (pc = "save" /\ save_ok' = "True") =>
            Ids(load_release_schedules(disk', today).books) = Ids(updated_schedules.books)
       /\ (pc = "idle" /\ pc' = "scrape") =>
            Ids(existing_schedules'.books) = Ids(StoredBooks)
      ]_vars

\* a candidate merged by title and author into a record of another id: no record
\* of the reconciled store has the candidate's id
C29_Witness ==
    /\ pc = "notify"
    /\ \E i \in 1..Len(all_discovered_books) :
          LET idx == MatchExisting(existing_schedules.books, all_discovered_books[i])
          IN  /\ idx # 0
              /\ existing_schedules.books[idx].id # all_discovered_books[i].id
              /\ updated_schedules.books[i].id = existing_schedules.books[idx].id
              /\ \A k \in 1..Len(updated_schedules.books) :
                    updated_schedules.books[k].id # all_discovered_books[i].id

\* C26: the store loaded back after a save has the records that were saved, equal
\* field by field, and reconciling a page's candidates against it gives what
\* reconciling them against the saved store gives.
C26_RoundTrip ==
    [][(pc = "save" /\ save_ok' = "True") =>
        LET loaded == load_release_schedules(disk', today)
        IN  /\ loaded.books = updated_schedules.books
            /\ \A page \in Pages :
                  LET books == scrape_author_releases(Authors[1], page, today, today)
                  IN  /\ update_release_schedules(loaded, books, today, today).books
                          = update_release_schedules(updated_schedules, books,
                                                     today, today).books
                      /\ NewDiscoveries(loaded, books)
                          = NewDiscoveries(updated_schedules, books)
                      /\ DateChanges(loaded, books) = DateChanges(updated_schedules, books)
      ]_vars

\* C28: neither the reconciliation nor the dispatch that follows it changes the
\* input store: its records, their metadata and their notifications_sent are
\* after both what they were before.
C28_InputStoreUntouched ==
    [][(pc \in {"update", "notify"} /\ pc' \in {"notify", "cleanup"}) =>
            existing_schedules' = existing_schedules
      ]_vars

\* the dispatch has appended an event to the copy of a record of the input store
C28_Witness ==
    /\ pc = "cleanup"
    /\ \E i \in 1..Len(updated_schedules.books) :
          /\ final_book_objects[i] = FreshObject
          /\ \E j \in 1..Len(existing_schedules.books) :
                /\ existing_schedules.books[j].id = updated_schedules.books[i].id
                /\ Len(updated_schedules.books[i].notifications_sent)
                      > Len(existing_schedules.books[j].notifications_sent)

\* the first pattern, in the order of the list, whose match has a month name the
\* dict knows and fields in range
FirstInRange(text) ==
    LET in_range == {k \in 1..Len(patterns) : PatternDate(k, text) # NoDate}
    IN  IF in_range = {} THEN 0 ELSE Min(in_range)

\* C25: parse_release_date gives the date of the first pattern, in the order ISO,
\* slash, dash, 'Month DD, YYYY', 'DD Month YYYY', 'Month YYYY', 'YYYY', whose match
\* has its fields in range, and fails when there is none: "2025-12-09" gives
\* 2025-12-09, "December 9, 2025" gives 2025-12-09, "December 2025" gives
\* 2025-12-01, "2025" gives 2025-01-01, "not a date" fails, and "2025-13-09", whose
\* ISO match has month 13, gives what the later patterns give, 2025-01-01.
C25_ParseTable ==
    parsed.done =>
        /\ date_text = <<"2", "0", "2", "5", "-", "1", "2", "-", "0", "9">> => parsed.value = <<2025, 12, 9>>
        /\ date_text = <<"D", "e", "c", "e", "m", "b", "e", "r", " ", "9", ",", " ", "2", "0", "2", "5">>
                => parsed.value = <<2025, 12, 9>>
        /\ date_text = <<"D", "e", "c", "e", "m", "b", "e", "r", " ", "2", "0", "2", "5">>
                => parsed.value = <<2025, 12, 1>>
        /\ date_text = <<"2", "0", "2", "5">> => parsed.value = <<2025, 1, 1>>
        /\ date_text = NotADate => parsed.value = NoDate
        /\ date_text = <<"2", "0", "2", "5", "-", "1", "3", "-", "0", "9">> => parsed.value = <<2025, 1, 1>>
        /\ date_text = <<"3", "0", " ", "F", "e", "b", "r", "u", "a", "r", "y", " ", "2", "0", "2", "5">>
                => parsed.value = <<2025, 2, 1>>
        /\ date_text # <<>> =>
              LET text == clean_text(date_text)
              IN  parsed.value = IF FirstInRange(text) = 0 THEN NoDate
                                 ELSE PatternDate(FirstInRange(text), text)

\* a text whose ISO match has month 13 was parsed by a later pattern
C25_Witness ==
    /\ parsed.done
    /\ date_text = <<"2", "0", "2", "5", "-", "1", "3", "-", "0", "9">>
    /\ Search(patterns[1], clean_text(date_text)) # NoMatch
    /\ PatternDate(1, clean_text(date_text)) = NoDate
    /\ parsed.value = <<2025, 1, 1>>

====
